---- MODULE Spec2Model ----
(***************************************************************************)
(* Model of the walkers tile pipeline: the tile cache `Tiles` with its     *)
(* non-blocking lookup `Tiles::at`, the background `download` task with    *)
(* its two bounded tokio mpsc channels (src/src/tiles.rs), and the         *)
(* recursive viewport enumerator `draw_tiles` (src/src/map.rs).            *)
(***************************************************************************)
EXTENDS Integers, Sequences, FiniteSets, TLC

\* ------------------------------------------------------------------ bounds

\* Number of distinct tile ids the render context looks up directly.
NumIds == 3

\* Largest channel capacity an instance is built with (the code builds 20).
MaxChannelSize == 2

\* Largest zoom level of a map view: the grid has 2^zoom tiles a side.
MaxZoom == 1

\* Side of a tile image in pixels (a scaled-down 256).
TileSize == 4

\* Largest half-width and half-height of the clip rectangle in pixels.
MaxHalf == 1

\* Largest coordinate, in pixels of zoom 0, of a live position.
MaxLive == 2

\* ------------------------------------------------------------- tile ids

\* tests::TILE_ID, the tile the repository's tests look up.
TILE_ID == [x |-> 1, y |-> 2, zoom |-> 3]

\* The ids handed to Tiles::at by direct callers: TILE_ID and its eastern
\* neighbours on the same row.
LookupIds == { [x |-> TILE_ID.x + i, y |-> TILE_ID.y, zoom |-> TILE_ID.zoom] : i \in 0..(NumIds - 1) }

RECURSIVE Pow2(_)
Pow2(n) == IF n = 0 THEN 1 ELSE 2 * Pow2(n - 1)

\* Rows beyond either pole that a viewport of the largest size can touch
\* or have as a neighbour of a tile it touches.
Margin == 2 + (MaxHalf + TileSize - 1) \div TileSize

\* The tile ids of the grid at zoom z, with the rows that unguarded
\* north/south steps can reach beyond the poles.
GridIds(z) ==
    { [x |-> i, y |-> j, zoom |-> z] :
        i \in 0..(Pow2(z) - 1), j \in (0 - Margin)..(Pow2(z) - 1 + Margin) }

TileIds == LookupIds \cup UNION { GridIds(z) : z \in 0..MaxZoom }

\* ---------------------------------------------------------------- values

\* Option<Tile>: None is the empty sequence, Some(t) the one-element one.
None == <<>>

Some(t) == <<t>>

\* Tile::new(image): the decoded image of the body served for tile id `id`.
Tile_new(id) == [image |-> id]

\* HashMap::default()
EmptyMap == [id \in {} |-> None]

\* HashMap::insert / VacantEntry::insert
Insert(c, k, v) == [i \in (DOMAIN c) \cup {k} |-> IF i = k THEN v ELSE c[i]]

\* What one HTTP exchange can end in.
\*   "ok"          2xx with a body that reads and decodes
\*   "non2xx"      a response whose status is not a success
\*   "neterr"      no response at all: send() returns Err
\*   "bodyerr"     2xx, but reading the body fails: bytes() returns Err
\*   "undecodable" 2xx with a body that is not a decodable image
Outcomes == {"ok", "non2xx", "neterr", "bodyerr", "undecodable"}

\* The servers considered: one that always succeeds, one that always answers
\* non-2xx (the two servers of the tests), and an arbitrary one.
Servers == { {"ok"}, {"non2xx"}, Outcomes }

VARIABLES
    channel_size,   \* Tiles::new: capacity of both channels
    server,         \* the outcomes the tile server can produce
    cache,          \* Tiles.cache: HashMap<TileId, Option<Tile>> as a function on its keys
    request_ch,     \* the request channel's buffer (request_tx -> request_rx)
    tile_ch,        \* the tile channel's buffer (tile_tx -> tile_rx)
    request_tx,     \* TRUE while Tiles.request_tx is alive
    tile_rx,        \* TRUE while Tiles.tile_rx is alive
    worker,         \* position of the download task
    requested,      \* download's `requested`, None outside a download
    gui,            \* the render context: "running" or "panicked"
    ret,            \* <<tile_id, value, branch>> of the last Tiles::at call that returned:
                    \* its argument, what it returned, and the branch it took
                    \* ("occupied", "requested": try_send ok, "full": try_send failed)
    enqueued,       \* history: per id, the try_send calls that succeeded
    gets,           \* history: per id, the HTTP GETs issued
    pushed,         \* history: results the worker finished pushing
    repaints,       \* history: request_repaint calls
    recv_none,      \* history: TRUE once request_rx.recv() has returned None
    zoom,           \* MapMemory.zoom
    map_center,     \* Map::ui: map_center.project(zoom), the center's pixel position <<x, y>>
    clip,           \* painter.clip_rect(): [min |-> <<x, y>>, max |-> <<x, y>>]
    stack,          \* the draw_tiles calls still to be made, the next one first
    meshes,         \* Map::ui: the keys of `meshes`
    frame,          \* "none": no frame yet, "drawing": inside draw_tiles, "done": it returned
    ready0,         \* history: the tiles that were ready when the frame started
    center_mode,    \* MapMemory.center_mode
    my_position,    \* Map.my_position, the live position of the last frame
    last_drag,      \* history: the mode before the last frame and the frame's drag input
    redraw          \* the render context's flag set by request_repaint()

tilevars == <<channel_size, server, cache, request_ch, tile_ch, request_tx, tile_rx,
              worker, requested, gui, ret, enqueued, gets, pushed, repaints, recv_none>>

mapvars == <<zoom, map_center, clip, stack, meshes, frame, ready0,
             center_mode, my_position, last_drag>>

vars == <<tilevars, mapvars, redraw>>

\* ------------------------------------------------------------ Tiles::new

InitTiles ==
    /\ channel_size \in 1..MaxChannelSize
    /\ server \in Servers
    /\ cache = EmptyMap
    /\ request_ch = <<>>
    /\ tile_ch = <<>>
    /\ request_tx = TRUE
    /\ tile_rx = TRUE
    /\ worker = "recv"
    /\ requested = None
    /\ gui = "running"
    /\ ret = <<>>
    /\ enqueued = [id \in TileIds |-> 0]
    /\ gets = [id \in TileIds |-> 0]
    /\ pushed = 0
    /\ repaints = 0
    /\ recv_none = FALSE

\* ------------------------------------------------------------- Tiles::at

\* The download task has ended (its loop broke, or it panicked): the future
\* is dropped, and request_rx and tile_tx with it.
WorkerGone == worker \in {"exited", "panic_send", "panic_bytes", "panic_decode"}

\* self.tile_rx.try_recv()
TryRecv ==
    IF tile_ch # <<>> THEN "Ok"
    ELSE IF WorkerGone THEN "Disconnected"
    ELSE "Empty"

\* Occupied as it would be if a pending entry (None) counted as vacant.
Occupied_ReadyOnly(c, id) == id \in DOMAIN c /\ c[id] # None

\* match self.cache.entry(tile_id): Entry::Occupied
Occupied(c, id) == id \in DOMAIN c

\* try_send as it would be on an unbounded channel.
TrySendOk_Unbounded(q) == ~WorkerGone

\* self.request_tx.try_send(tile_id) is Ok(()): the receiver is alive and
\* the buffer holds fewer than channel_size messages.
TrySendOk(q) == ~WorkerGone /\ Len(q) < channel_size

\* Tiles::at(tile_id), the whole call, on the state of Tiles.
AtCall(tile_id) ==
    /\ gui = "running"
    /\ request_tx
    /\ tile_rx
    /\ IF TryRecv = "Disconnected"
       THEN \* Err(TryRecvError::Disconnected) => todo!()
            /\ gui' = "panicked"
            /\ UNCHANGED <<cache, request_ch, tile_ch, ret, enqueued>>
       ELSE LET received == TryRecv = "Ok"
                c1 == IF received
                      THEN Insert(cache, Head(tile_ch)[1], Some(Head(tile_ch)[2]))
                      ELSE cache
            IN  /\ tile_ch' = IF received THEN Tail(tile_ch) ELSE tile_ch
                /\ gui' = gui
                /\ IF Occupied(c1, tile_id)
                   THEN /\ cache' = c1
                        /\ ret' = <<tile_id, c1[tile_id], "occupied">>
                        /\ UNCHANGED <<request_ch, enqueued>>
                   ELSE IF TrySendOk(request_ch)
                           THEN /\ ret' = <<tile_id, None, "requested">>
                                /\ request_ch' = Append(request_ch, tile_id)
                                /\ cache' = Insert(c1, tile_id, None)
                                /\ enqueued' = [enqueued EXCEPT ![tile_id] = @ + 1]
                           ELSE /\ ret' = <<tile_id, None, "full">>
                                /\ cache' = c1
                                /\ UNCHANGED <<request_ch, enqueued>>
    /\ UNCHANGED <<channel_size, server, request_tx, tile_rx, worker, requested,
                   gets, pushed, repaints, recv_none>>

\* Tiles::at(tile_id) called directly by the render context.
At(tile_id) ==
    /\ stack = <<>>
    /\ AtCall(tile_id)
    /\ UNCHANGED <<mapvars, redraw>>

\* ------------------------------------------------------------- download

\* The status test negated.
IsSuccess_Negated(o) == o \notin {"ok", "bodyerr", "undecodable"}

\* image.status().is_success()
IsSuccess(o) == o \in {"ok", "bodyerr", "undecodable"}

\* The status branch as it would be if its body's last statement, the
\* request_repaint() call, stood after the `if` instead of inside it.
AfterStatus_RepaintAlways(o) == IF IsSuccess(o) THEN "bytes" ELSE "repaint"

\* if image.status().is_success() { .. }: where the task goes on from the
\* status test; a non-success status skips the body, back to recv().
AfterStatus(o) == IF IsSuccess(o) THEN "bytes" ELSE "recv"

\* request_rx.recv().await returns Some(requested); the GET is issued.
Recv ==
    /\ worker = "recv"
    /\ request_ch # <<>>
    /\ requested' = Some(Head(request_ch))
    /\ request_ch' = Tail(request_ch)
    /\ gets' = [gets EXCEPT ![Head(request_ch)] = @ + 1]
    /\ worker' = "get"
    /\ UNCHANGED <<channel_size, server, cache, tile_ch, request_tx, tile_rx, gui,
                   ret, enqueued, pushed, repaints, recv_none>>
    /\ UNCHANGED <<mapvars, redraw>>

\* request_rx.recv().await returns None (every sender dropped and the buffer
\* drained): the `if let` has no else, so the loop iterates and awaits
\* recv() again.
RecvNone ==
    /\ worker = "recv"
    /\ request_ch = <<>>
    /\ ~request_tx
    /\ recv_none' = TRUE
    /\ worker' = "recv"
    /\ UNCHANGED <<channel_size, server, cache, request_ch, tile_ch, request_tx,
                   tile_rx, requested, gui, ret, enqueued, gets, pushed, repaints>>
    /\ UNCHANGED <<mapvars, redraw>>

\* An unwrap() on Err panics inside the task: the task ends where it
\* panicked ("panic_send": send().await.unwrap(), "panic_bytes":
\* bytes().await.unwrap(), "panic_decode": the unwrap() of Tile::new), its
\* future is dropped, request_rx (with what it buffers) and tile_tx with it.
Panicked(at) ==
    /\ worker' = at
    /\ requested' = None
    /\ request_ch' = <<>>

\* client.get(url).send().await.unwrap(), then the status test.
Respond(o) ==
    /\ worker = "get"
    /\ o \in server
    /\ IF o = "neterr"
       THEN Panicked("panic_send")
       ELSE /\ worker' = AfterStatus(o)
            /\ requested' = IF IsSuccess(o) THEN requested ELSE None
            /\ request_ch' = request_ch
    /\ UNCHANGED <<channel_size, server, cache, tile_ch, request_tx, tile_rx, gui,
                   ret, enqueued, gets, pushed, repaints, recv_none>>
    /\ UNCHANGED <<mapvars, redraw>>

\* image.bytes().await.unwrap(), then Tile::new(&image), whose
\* from_image_bytes(..).unwrap() panics on an undecodable body.
Body(o) ==
    /\ worker = "bytes"
    /\ o \in server
    /\ IsSuccess(o)
    /\ IF o = "ok"
       THEN /\ worker' = "send"
            /\ UNCHANGED <<requested, request_ch>>
       ELSE Panicked(IF o = "bodyerr" THEN "panic_bytes" ELSE "panic_decode")
    /\ UNCHANGED <<channel_size, server, cache, tile_ch, request_tx, tile_rx, gui,
                   ret, enqueued, gets, pushed, repaints, recv_none>>
    /\ UNCHANGED <<mapvars, redraw>>

\* tile_tx.send((requested, Tile::new(&image))).await: Err when tile_rx is
\* gone (break), otherwise completes once the buffer has room.
Send ==
    /\ worker = "send"
    /\ IF ~tile_rx
       THEN /\ worker' = "exited"
            /\ requested' = None
            /\ request_ch' = <<>>
            /\ UNCHANGED <<tile_ch, pushed>>
       ELSE /\ Len(tile_ch) < channel_size
            /\ tile_ch' = Append(tile_ch, <<requested[1], Tile_new(requested[1])>>)
            /\ pushed' = pushed + 1
            /\ worker' = "repaint"
            /\ UNCHANGED <<requested, request_ch>>
    /\ UNCHANGED <<channel_size, server, cache, request_tx, tile_rx, gui, ret,
                   enqueued, gets, repaints, recv_none>>
    /\ UNCHANGED <<mapvars, redraw>>

\* egui_ctx.request_repaint(), and back to the top of the loop.
Repaint ==
    /\ worker = "repaint"
    /\ repaints' = repaints + 1
    /\ worker' = "recv"
    /\ requested' = None
    /\ redraw' = TRUE
    /\ UNCHANGED <<channel_size, server, cache, request_ch, tile_ch, request_tx,
                   tile_rx, gui, ret, enqueued, gets, pushed, recv_none>>
    /\ UNCHANGED mapvars

\* ------------------------------------------------------- tile geometry

\* TileId::project(): the pixel position of the tile's top-left corner.
project(tile_id) == <<tile_id.x * TileSize, tile_id.y * TileSize>>

\* The neighbours: x wraps around the grid, y is shifted with no guard.
north(tile_id) == [tile_id EXCEPT !.y = @ - 1]

east(tile_id) == [tile_id EXCEPT !.x = (@ + 1) % Pow2(tile_id.zoom)]

south(tile_id) == [tile_id EXCEPT !.y = @ + 1]

west(tile_id) == [tile_id EXCEPT !.x = (@ - 1) % Pow2(tile_id.zoom)]

\* Position::tile_id(zoom) of a position given by its pixel position: the
\* tile whose pixel square holds it.
tile_id_of(pixel, z) ==
    [x |-> pixel[1] \div TileSize, y |-> pixel[2] \div TileSize, zoom |-> z]

\* Positions are pairs of world coordinates, in pixels of the largest zoom
\* level: WorldSize of them along each axis.
WorldSize == TileSize * Pow2(MaxZoom)

InWorld(pos) == pos[1] \in 0..(WorldSize - 1) /\ pos[2] \in 0..(WorldSize - 1)

\* Position::project(zoom): the pixel position at zoom z, whose world is
\* TileSize * 2^z pixels wide.
Position_project(pos, z) ==
    <<pos[1] \div Pow2(MaxZoom - z), pos[2] \div Pow2(MaxZoom - z)>>

\* screen_to_position(pixel, zoom): the inverse of Position::project.
screen_to_position(pixel, z) ==
    <<pixel[1] * Pow2(MaxZoom - z), pixel[2] * Pow2(MaxZoom - z)>>

\* Tile::rect(screen_position): the image's size is TileSize x TileSize.
Tile_rect(screen_position) ==
    [min |-> screen_position,
     max |-> <<screen_position[1] + TileSize, screen_position[2] + TileSize>>]

\* egui's Rect::center()
Rect_center(r) == <<(r.min[1] + r.max[1]) \div 2, (r.min[2] + r.max[2]) \div 2>>

\* egui's Rect::intersects(): the comparisons are inclusive.
Rect_intersects(r, other) ==
    /\ r.min[1] <= other.max[1]
    /\ other.min[1] <= r.max[1]
    /\ r.min[2] <= other.max[2]
    /\ other.min[2] <= r.max[2]

\* draw_tiles: tile_screen_position
TileScreenPosition(tile_id) ==
    <<Rect_center(clip)[1] + project(tile_id)[1] - map_center[1],
      Rect_center(clip)[2] + project(tile_id)[2] - map_center[2]>>

\* draw_tiles: painter.clip_rect().intersects(image.rect(tile_screen_position))
Visible(tile_id) == Rect_intersects(clip, Tile_rect(TileScreenPosition(tile_id)))

\* The set of elements of a sequence.
Range(q) == { q[i] : i \in 1..Len(q) }

\* The tiles the cache holds an image of.
ReadyTiles == { id \in DOMAIN cache : cache[id] # None }

\* ----------------------------------------------------------- Map::ui

\* The vacancy test as it would be if it always passed.
MeshVacant_Always(m, tile_id) == TRUE

\* meshes.entry(tile_id) is Entry::Vacant
MeshVacant(m, tile_id) == tile_id \notin Range(m)

\* The test of the looked-up tile as it would be if it always passed.
HasImage_Always(tile) == TRUE

\* let tile = if let Some(tile) = tiles.at(tile_id) { tile } else { return }
HasImage(tile) == tile # None

\* MapCenterMode::MyPosition and MapCenterMode::Exact(position)
MyPosition == [kind |-> "MyPosition"]

Exact(position) == [kind |-> "Exact", position |-> position]

\* MapMemory::default().center_mode, and no drag yet.
NoDrag == [before |-> MyPosition, dragged |-> FALSE, delta |-> <<0, 0>>]

\* MapCenterMode::position as it would be if it ignored the mode.
position_Live(mode, my_pos) == my_pos

\* screen_drag as it would be if the drag that detaches the view were
\* applied to the position it is anchored at, as the later drags are.
screen_drag_ShiftFirst(mode, dragged, delta, my_pos, z) ==
    LET from == IF mode = MyPosition THEN my_pos ELSE mode.position
    IN  IF dragged
        THEN Exact(screen_to_position(
                 <<Position_project(from, z)[1] - delta[1],
                   Position_project(from, z)[2] - delta[2]>>, z))
        ELSE mode

\* MapCenterMode::screen_drag: the mode after a frame whose response says
\* whether the primary button dragged, and by which delta in pixels.
screen_drag(mode, dragged, delta, my_pos, z) ==
    IF dragged
    THEN IF mode = MyPosition
         THEN Exact(my_pos)
         ELSE Exact(screen_to_position(
                  <<Position_project(mode.position, z)[1] - delta[1],
                    Position_project(mode.position, z)[2] - delta[2]>>, z))
    ELSE mode

\* MapCenterMode::position
position(mode, my_pos) == IF mode = MyPosition THEN my_pos ELSE mode.position

\* Map::ui of a Map built with the live position my_pos, on a response that
\* reports the drag (dragged, delta), up to its call of draw_tiles on the
\* center tile, with an empty `meshes`.
MapUi(my_pos, dragged, delta) ==
    /\ stack = <<>>
    /\ gui = "running"
    /\ request_tx
    /\ tile_rx
    /\ InWorld(position(screen_drag(center_mode, dragged, delta, my_pos, zoom), my_pos))
    /\ my_position' = my_pos
    /\ center_mode' = screen_drag(center_mode, dragged, delta, my_pos, zoom)
    /\ last_drag' = [before |-> center_mode, dragged |-> dragged, delta |-> delta]
    /\ map_center' = Position_project(position(center_mode', my_pos), zoom)
    /\ meshes' = <<>>
    /\ stack' = <<tile_id_of(map_center', zoom)>>
    /\ frame' = "drawing"
    /\ ready0' = ReadyTiles
    /\ UNCHANGED <<zoom, clip>>
    /\ UNCHANGED tilevars

\* A frame of a still view: the live position stays and nothing is dragged.
Ui ==
    /\ MapUi(my_position, FALSE, <<0, 0>>)
    /\ UNCHANGED redraw

\* One call of draw_tiles, up to its recursive calls: these are made next,
\* north first, before the calls that were already waiting.
draw_tiles ==
    /\ stack # <<>>
    /\ LET tile_id == Head(stack)
       IN  /\ AtCall(tile_id)
           /\ IF gui' = "panicked"
              THEN \* the panic of todo!() unwinds the frame
                   UNCHANGED <<stack, meshes, frame>>
              ELSE /\ IF /\ HasImage(ret'[2])
                         /\ Visible(tile_id)
                         /\ MeshVacant(meshes, tile_id)
                      THEN /\ meshes' = Append(meshes, tile_id)
                           /\ stack' = <<north(tile_id), east(tile_id),
                                         south(tile_id), west(tile_id)>>
                                       \o Tail(stack)
                      ELSE /\ meshes' = meshes
                           /\ stack' = Tail(stack)
                   /\ frame' = IF stack' = <<>> THEN "done" ELSE "drawing"
    /\ UNCHANGED <<zoom, map_center, clip, ready0, center_mode, my_position,
                   last_drag, redraw>>

\* ---------------------------------------------------------- drop(Tiles)

\* Tiles is dropped field by field, in declaration order: request_tx ...
DropRequestTx ==
    /\ request_tx
    /\ request_tx' = FALSE
    /\ UNCHANGED <<channel_size, server, cache, request_ch, tile_ch, tile_rx, worker,
                   requested, gui, ret, enqueued, gets, pushed, repaints, recv_none>>
    /\ UNCHANGED <<mapvars, redraw>>

\* ... then tile_rx, and the results it still buffers with it.
DropTileRx ==
    /\ ~request_tx
    /\ tile_rx
    /\ tile_rx' = FALSE
    /\ tile_ch' = <<>>
    /\ UNCHANGED <<channel_size, server, cache, request_ch, request_tx, worker,
                   requested, gui, ret, enqueued, gets, pushed, repaints, recv_none>>
    /\ UNCHANGED <<mapvars, redraw>>

\* ------------------------------------------------------- specifications

Lookup == \E tile_id \in LookupIds : At(tile_id)

Response == \E o \in Outcomes : Respond(o)

BodyRead == \E o \in Outcomes : Body(o)

\* No map widget: Tiles is used directly, as the tests do.
InitNoMap ==
    /\ zoom = TILE_ID.zoom
    /\ map_center = <<0, 0>>
    /\ clip = [min |-> <<0, 0>>, max |-> <<0, 0>>]
    /\ stack = <<>>
    /\ meshes = <<>>
    /\ frame = "none"
    /\ ready0 = {}
    /\ center_mode = MyPosition
    /\ my_position = <<0, 0>>
    /\ last_drag = NoDrag
    /\ redraw = FALSE

Init == InitTiles /\ InitNoMap

\* The pixel positions of the map centers considered at zoom z: every
\* position of the row and of the column through the middle of tile (0, 0),
\* and the corner shared by the first four tiles.
MapCenters(z) ==
    LET pixels == 0..(TileSize * Pow2(z) - 1)
        mid == TileSize \div 2
    IN  { <<c, mid>> : c \in pixels } \cup { <<mid, c>> : c \in pixels }
        \cup { <<c, c>> : c \in { TileSize } \cap pixels }

\* A map widget of some zoom, center and clip rectangle over a fresh cache
\* with the widest channels and an arbitrary server.
InitMap ==
    /\ InitTiles
    /\ channel_size = MaxChannelSize
    /\ server = Outcomes
    /\ zoom \in 0..MaxZoom
    /\ map_center \in MapCenters(zoom)
    /\ \E hw, hh \in 1..MaxHalf : clip = [min |-> <<0, 0>>, max |-> <<2 * hw, 2 * hh>>]
    /\ stack = <<>>
    /\ meshes = <<>>
    /\ frame = "none"
    /\ ready0 = {}
    /\ center_mode = MyPosition
    /\ my_position = screen_to_position(map_center, zoom)
    /\ last_drag = NoDrag
    /\ redraw = FALSE

\* The live positions considered: those on the pixel grid of zoom 0 along
\* the diagonal of the first tile.
LivePositions == { screen_to_position(<<i, i>>, 0) : i \in 0..MaxLive }

\* The drag deltas considered, in pixels.
Deltas == { <<0, 0>>, <<1, 0>>, <<0, 1>>, <<0 - 1, 0 - 1>> }

\* A frame with any live position and any drag; a response that reports no
\* drag has a zero delta.
UiDrag ==
    /\ \E my_pos \in LivePositions, dragged \in BOOLEAN, delta \in Deltas :
            /\ ~dragged => delta = <<0, 0>>
            /\ MapUi(my_pos, dragged, delta)
    /\ UNCHANGED redraw

\* A map widget in its default mode over a fresh cache, before its first
\* frame.
InitView ==
    /\ InitTiles
    /\ channel_size = MaxChannelSize
    /\ zoom \in 0..MaxZoom
    /\ my_position \in LivePositions
    /\ map_center = Position_project(my_position, zoom)
    /\ clip = [min |-> <<0, 0>>, max |-> <<2, 2>>]
    /\ stack = <<>>
    /\ meshes = <<>>
    /\ frame = "none"
    /\ ready0 = {}
    /\ center_mode = MyPosition
    /\ last_drag = NoDrag
    /\ redraw = FALSE

InitDrag == InitView /\ server = Outcomes

\* Frames of a map widget whose user drags the view while the live position
\* moves; no tile arrives meanwhile.
NextDrag ==
    \/ UiDrag
    \/ draw_tiles

DragSpec == InitDrag /\ [][NextDrag]_vars

\* The render loop runs a frame of the map widget when a redraw has been
\* requested, and once at start-up; the requests made before the frame
\* starts are all served by it. The live position of the frame is arbitrary.
Frame ==
    /\ redraw \/ frame = "none"
    /\ \E my_pos \in LivePositions : MapUi(my_pos, FALSE, <<0, 0>>)
    /\ redraw' = FALSE

\* A map widget that follows the live position, over a fresh cache and a
\* server that always succeeds, in a render loop that is idle unless a
\* redraw is requested.
InitIdle == InitView /\ server = {"ok"}

NextIdle ==
    \/ Frame
    \/ draw_tiles
    \/ Recv
    \/ Response
    \/ BodyRead
    \/ Send
    \/ Repaint

IdleSpec == InitIdle /\ [][NextIdle]_vars

\* Frames of the map widget, with the download task running beside them.
NextMap ==
    \/ Ui
    \/ draw_tiles
    \/ Recv
    \/ Response
    \/ BodyRead
    \/ Send
    \/ Repaint

MapSpec == InitMap /\ [][NextMap]_vars

Next ==
    \/ Lookup
    \/ Recv
    \/ RecvNone
    \/ Response
    \/ BodyRead
    \/ Send
    \/ Repaint
    \/ DropRequestTx
    \/ DropTileRx

Spec == Init /\ [][Next]_vars

\* The render context keeps calling Tiles::at and never drops the cache, the
\* server always succeeds, and the runtime keeps scheduling the download task.
InitOk == Init /\ server = {"ok"}

NextLive ==
    \/ Lookup
    \/ Recv
    \/ Response
    \/ BodyRead
    \/ Send
    \/ Repaint

LiveSpec ==
    /\ InitOk
    /\ [][NextLive]_vars
    /\ WF_vars(At(TILE_ID))
    /\ WF_vars(Recv)
    /\ WF_vars(Response)
    /\ WF_vars(BodyRead)
    /\ WF_vars(Send)
    /\ WF_vars(Repaint)

\* --------------------------------------------------------------- helpers

\* Number of positions of sequence q that hold e.
Count(q, e) == Cardinality({i \in 1..Len(q) : q[i] = e})

\* The ids of the results buffered in the tile channel.
TileChIds == [i \in 1..Len(tile_ch) |-> tile_ch[i][1]]

\* The download task holds a request it has not yet answered.
Fetching(id) == requested = Some(id) /\ worker \in {"get", "bytes", "send"}

\* Copies of id in the request queue, with the worker, or in the result queue.
Outstanding(id) ==
    Count(request_ch, id) + (IF Fetching(id) THEN 1 ELSE 0) + Count(TileChIds, id)

RECURSIVE SumOver(_, _)
SumOver(f, S) ==
    IF S = {} THEN 0
    ELSE LET e == CHOOSE e \in S : TRUE IN f[e] + SumOver(f, S \ {e})

\* The try_send calls that succeeded so far, over all ids.
TotalEnqueued == SumOver(enqueued, { id \in TileIds : enqueued[id] > 0 })

\* The download of id is over: it was started and the worker no longer holds it.
Completed(id) == gets[id] > 0 /\ ~Fetching(id)

NoCompletion == \A id \in TileIds : ~Completed(id)

\* draw_tiles: the four recursive calls' tiles.
Neighbours(tile_id) == {north(tile_id), east(tile_id), south(tile_id), west(tile_id)}

\* Map::ui: map_center.tile_id(zoom), the tile draw_tiles starts from.
CenterTile == tile_id_of(map_center, zoom)

\* The tiles of the grid whose screen rectangle intersects the clip rectangle.
VisibleTiles == { t \in GridIds(zoom) : Visible(t) }

RECURSIVE Grow(_, _)
Grow(S, R) ==
    LET R2 == R \cup { n \in S : \E t \in R : n \in Neighbours(t) }
    IN  IF R2 = R THEN R ELSE Grow(S, R2)

\* The tiles of S reachable from start through 4-neighbour steps inside S.
Reach(S, start) == IF start \in S THEN Grow(S, {start}) ELSE {}

NoDup(q) == \A i, j \in 1..Len(q) : i # j => q[i] # q[j]

\* ---------------------------------------------------------------- claims

\* C1: for every tile id, in every reachable state, at most one copy of the
\* id is in the request queue, with the worker, or in the result queue, and
\* the id has been enqueued at most once however often it was looked up.
C1_AtMostOneOutstanding ==
    \A id \in TileIds : Outstanding(id) <= 1 /\ enqueued[id] <= 1

\* A lookup of an id found it pending while its one request is outstanding.
C1_Witness ==
    \E id \in TileIds :
        /\ ret = <<id, None, "occupied">>
        /\ Outstanding(id) = 1
        /\ enqueued[id] = 1

\* C2: with an always-succeeding server and a fair worker, a render context
\* that keeps calling at(TILE_ID) eventually gets a populated tile from it.
C2_EventuallyPopulated ==
    <>(Len(ret) = 3 /\ ret[1] = TILE_ID /\ ret[2] = Some(Tile_new(TILE_ID)))

\* at(TILE_ID) returned its tile after every other id had been requested too.
C2_Witness ==
    /\ ret = <<TILE_ID, Some(Tile_new(TILE_ID)), "occupied">>
    /\ \A id \in LookupIds : enqueued[id] = 1

\* C3: with a server that always answers non-2xx, no lookup ever returns a
\* tile, every id is enqueued and fetched at most once, and an entry once
\* pending stays pending with its request count at exactly 1.
C3_EmptyForever ==
    server = {"non2xx"} =>
        /\ ret = <<>> \/ ret[2] = None
        /\ \A id \in TileIds :
            /\ enqueued[id] <= 1
            /\ gets[id] <= enqueued[id]
            /\ id \in DOMAIN cache => cache[id] = None /\ enqueued[id] = 1
            /\ id \notin DOMAIN cache => enqueued[id] = 0

\* The fetch of id failed with a non-2xx status and id was looked up again.
C3_Witness ==
    \E id \in TileIds :
        /\ server = {"non2xx"}
        /\ Completed(id)
        /\ ret = <<id, None, "occupied">>
        /\ request_ch = <<>>
        /\ enqueued[id] = 1
        /\ gets[id] = 1

\* C4: a call of Tiles::at never aborts the render context.
C4_LookupNeverAborts == gui = "running"

\* C5: a network error (send() returns Err) does not stop the worker.
C5_NetworkErrorKeepsWorker == worker # "panic_send"

\* C6: a 2xx body that cannot be read or decoded does not crash the worker.
C6_BadBodyKeepsWorker == worker \notin {"panic_bytes", "panic_decode"}

\* C7 as claimed: with capacity 1 and an empty cache, after at(a) enqueued a,
\* a lookup of another id b made before any download has completed leaves b
\* absent, returns empty and enqueues nothing, whatever the worker did in
\* between.
C7_SecondLookupNeverEnqueues ==
    [][\A a, b \in LookupIds :
        ( /\ a # b
          /\ channel_size = 1
          /\ ret = <<a, None, "requested">>
          /\ DOMAIN cache = {a}
          /\ NoCompletion
          /\ At(b) )
        => /\ ret' = <<b, None, "full">>
           /\ b \notin DOMAIN cache'
           /\ TotalEnqueued' = 1]_vars

\* C7 amended: the second lookup enqueues nothing exactly when the first
\* request is still in the request queue; when the worker has already taken
\* it off the queue, the second lookup enqueues b as well.
C7_SecondLookupEnqueuesIffDequeued ==
    [][\A a, b \in LookupIds :
        ( /\ a # b
          /\ channel_size = 1
          /\ ret = <<a, None, "requested">>
          /\ DOMAIN cache = {a}
          /\ NoCompletion
          /\ At(b) )
        => IF request_ch # <<>>
           THEN /\ ret' = <<b, None, "full">>
                /\ b \notin DOMAIN cache'
                /\ TotalEnqueued' = 1
           ELSE /\ ret' = <<b, None, "requested">>
                /\ cache'[b] = None
                /\ TotalEnqueued' = 2]_vars

\* The second lookup found the queue of capacity 1 full and left b absent.
C7_Witness ==
    \E a, b \in LookupIds :
        /\ a # b
        /\ channel_size = 1
        /\ ret = <<b, None, "full">>
        /\ DOMAIN cache = {a}
        /\ request_ch = <<a>>
        /\ TotalEnqueued = 1
        /\ NoCompletion

\* C8: a lookup of an absent id marks it pending exactly when the enqueue
\* succeeded; with the queue full the entry stays absent, no request for it
\* exists and the call returns empty; with room in the queue the lookup
\* enqueues the request.
C8_PendingIffEnqueued ==
    [][\A id \in LookupIds :
        ( /\ At(id)
          /\ id \notin DOMAIN cache )
        => /\ gui' = "running"
           /\ \E branch \in {"requested", "full"} : ret' = <<id, None, branch>>
           /\ (id \in DOMAIN cache') = (enqueued'[id] = enqueued[id] + 1)
           /\ Len(request_ch) >= channel_size =>
                /\ id \notin DOMAIN cache'
                /\ Outstanding(id)' = 0
           /\ Len(request_ch) < channel_size =>
                /\ cache'[id] = None
                /\ request_ch' = Append(request_ch, id)]_vars

\* C9: once request_rx.recv() has returned None the worker's loop is over.
C9_WorkerExitsOnExhaustion == recv_none => worker = "exited"

\* C10 as claimed: whatever the cache holds, the tiles a finished draw_tiles
\* call has visited are, without repetition, exactly the tiles that
\* intersect the clip rectangle and are reachable from the center tile
\* through 4-neighbour steps over intersecting tiles.
C10_VisitsAllReachable ==
    frame = "done" =>
        /\ NoDup(meshes)
        /\ Range(meshes) = Reach(VisibleTiles, CenterTile)

\* C10 amended: the visited tiles are never repeated and are always among
\* the tiles reachable from the center tile over tiles that intersect the
\* clip rectangle and are ready; when the call has returned they include
\* every tile so reachable over the tiles that were ready when it started,
\* and are exactly the claimed set if all of that set was ready then.
C10_VisitsReadyReachable ==
    frame # "none" =>
        /\ NoDup(meshes)
        /\ Range(meshes) \subseteq Reach(VisibleTiles \cap ReadyTiles, CenterTile)
        /\ frame = "done" =>
                Reach(VisibleTiles \cap ready0, CenterTile) \subseteq Range(meshes)
        /\ frame = "done" /\ Reach(VisibleTiles, CenterTile) \subseteq ready0 =>
                Range(meshes) = Reach(VisibleTiles, CenterTile)

\* A call returned having visited all of three or more reachable
\* intersecting tiles, and pruned a ready tile outside the clip rectangle.
C10_Witness ==
    /\ frame = "done"
    /\ Len(meshes) >= 3
    /\ Range(meshes) = Reach(VisibleTiles, CenterTile)
    /\ \E t \in ReadyTiles : ~Visible(t)

\* C13 as claimed: in every reachable state the number of redraw signals
\* emitted equals the number of results the worker has finished pushing.
C13_RepaintsEqualPushed == repaints = pushed

\* C13 amended: the redraw signals emitted equal the results pushed, except
\* while the worker stands between a completed push and the request_repaint()
\* that follows it, when they are one fewer; so a failed fetch and a failed
\* push, which push nothing, emit no redraw signal.
C13_RepaintFollowsPush ==
    repaints = pushed - (IF worker = "repaint" THEN 1 ELSE 0)

\* One result was pushed and signalled, one fetch failed and one push failed
\* on the dropped receiver: three fetches, one redraw signal.
C13_Witness ==
    /\ worker = "exited"
    /\ pushed = 1
    /\ repaints = 1
    /\ \A id \in LookupIds : gets[id] = 1

\* The entry of id is pending: requested, no image yet.
Pending(c, id) == id \in DOMAIN c /\ c[id] = None

\* The entry of id is ready: it holds an image.
Ready(c, id) == id \in DOMAIN c /\ c[id] # None

\* C14: a cache entry moves only from absent to pending to ready. Every
\* result waiting in the result queue is for an entry that is pending, so a
\* result is committed only to a pending entry; a step never removes an
\* entry, never changes a ready entry, and makes an absent entry pending
\* only; and a tile that a lookup returned is the tile the cache holds for
\* that id ever after, so every later lookup returns the same tile.
C14_AbsentPendingReady ==
    /\ [](/\ \A i \in 1..Len(tile_ch) : Pending(cache, tile_ch[i][1])
          /\ (ret # <<>> /\ ret[2] # None) =>
                Ready(cache, ret[1]) /\ cache[ret[1]] = ret[2])
    /\ [][\A id \in TileIds :
            /\ id \in DOMAIN cache => id \in DOMAIN cache'
            /\ Ready(cache, id) => cache'[id] = cache[id]
            /\ id \notin DOMAIN cache /\ id \in DOMAIN cache' => Pending(cache', id)
            /\ Pending(cache, id) /\ Ready(cache', id) =>
                    /\ tile_ch # <<>>
                    /\ Head(tile_ch) = <<id, cache'[id][1]>>
                    /\ tile_ch' = Tail(tile_ch)]_vars

\* A lookup of a ready id committed the result of another id, which was
\* pending, and returned the tile it had returned before.
C14_Witness ==
    \E a, b \in LookupIds :
        /\ a # b
        /\ ret = <<a, Some(Tile_new(a)), "occupied">>
        /\ Ready(cache, b)
        /\ gets[a] = 1
        /\ gets[b] = 1
        /\ pushed = 2
        /\ tile_ch = <<>>
        /\ \E c \in LookupIds : c \notin DOMAIN cache

CalledFrom(visited) == {CenterTile} \cup UNION { Neighbours(t) : t \in visited }

\* C15 as claimed: the cache is queried only for tiles whose screen rectangle
\* intersects the clip rectangle, so the call creates no entry and no request
\* for a tile outside the viewport.
C15_LookupsOnlyIntersecting ==
    frame # "none" =>
        /\ ret # <<>> => Visible(ret[1])
        /\ \A id \in DOMAIN cache : Visible(id)

\* C15 amended: the cache is queried before the intersection test, for the
\* center tile and for the four neighbours of every visited tile, whether
\* they intersect the clip rectangle or not; only intersecting tiles are
\* visited, so a non-intersecting tile gets a lookup, and with it an entry
\* and a request, but no quad, and no tile is looked up through it: the
\* calls still to be made, whose head is the next lookup, are all of the
\* center tile or of a neighbour of a visited tile.
C15_LookupsAroundVisited ==
    frame # "none" =>
        /\ Range(meshes) \subseteq VisibleTiles
        /\ Range(stack) \subseteq CalledFrom(Range(meshes))
        /\ DOMAIN cache \subseteq CalledFrom(VisibleTiles \cap ReadyTiles)

\* A tile outside the clip rectangle was looked up, found ready and pruned.
C15_Witness ==
    /\ frame # "none"
    /\ ret # <<>>
    /\ ret[2] # None
    /\ ~Visible(ret[1])
    /\ ret[1] \notin Range(meshes)
    /\ Neighbours(ret[1]) \cap Range(stack) \subseteq CalledFrom(Range(meshes) \ {ret[1]})

\* The coordinates of a tile id lie inside the grid of its zoom level.
InGrid(id) ==
    /\ 0 <= id.x
    /\ id.x < Pow2(id.zoom)
    /\ 0 <= id.y
    /\ id.y < Pow2(id.zoom)

\* C16: every tile id passed to the cache lookup lies inside the grid of its
\* zoom level: a north or south neighbour whose y falls outside the grid is
\* pruned before any lookup, so no entry and no request exists for it.
C16_LookupsInGrid ==
    /\ ret # <<>> => InGrid(ret[1])
    /\ \A id \in DOMAIN cache : InGrid(id)
    /\ \A id \in TileIds : enqueued[id] > 0 => InGrid(id)

\* The number of tile ids of GridIds(z).
GridSize(z) == Pow2(z) * (Pow2(z) + 2 * Margin)

\* The work one draw_tiles call tree still has before it: the calls still
\* to be made, and four more for every tile of the grid not yet visited.
Measure == Len(stack) + 4 * (GridSize(zoom) - Len(meshes))

\* C17: every enumerator call terminates, and visits each tile once. No tile
\* is inserted into `meshes`, and so expanded and given a quad, twice; only
\* intersecting tiles of the grid are inserted; a call still to be made can
\* always be made; and every call of draw_tiles that does not abort the
\* frame brings the remaining work, a natural number, down by at least one.
C17_Terminates ==
    /\ [](/\ NoDup(meshes)
          /\ Range(meshes) \subseteq VisibleTiles
          /\ Len(meshes) <= GridSize(zoom)
          /\ stack # <<>> /\ gui = "running" => ENABLED draw_tiles
          /\ (stack = <<>>) = (frame # "drawing"))
    /\ [][draw_tiles => gui' = "panicked" \/ Measure' < Measure]_vars

\* A call tree returned after visiting three tiles, the wrapped-around
\* eastern neighbour of the first among the calls it pruned.
C17_Witness ==
    /\ frame = "done"
    /\ stack = <<>>
    /\ Len(meshes) >= 3
    /\ east(east(meshes[1])) = meshes[1]
    /\ Measure = 4 * (GridSize(zoom) - Len(meshes))

\* C19: the traversal expands only through ready tiles. A draw_tiles call
\* whose lookup returned empty inserts nothing and makes no further call;
\* every visited tile is ready, and every tile with a cache entry is the
\* center tile or a neighbour of a ready tile; so while the center tile is
\* not ready, nothing is visited and no tile but the center tile has an
\* entry or a request.
C19_ExpandsOnlyThroughReady ==
    /\ [](/\ Range(meshes) \subseteq ReadyTiles
          /\ DOMAIN cache \subseteq CalledFrom(ReadyTiles)
          /\ CenterTile \notin ReadyTiles =>
                /\ meshes = <<>>
                /\ Len(stack) <= 1
                /\ DOMAIN cache \subseteq {CenterTile}
                /\ \A id \in TileIds \ {CenterTile} : enqueued[id] = 0)
    /\ [][draw_tiles /\ gui' = "running" /\ ret'[2] = None =>
            /\ meshes' = meshes
            /\ stack' = Tail(stack)]_vars

\* The fetch of the center tile failed for good: a later frame looked it
\* up, got nothing, and returned with nothing visited and no other request.
C19_Witness ==
    /\ frame = "done"
    /\ ret = <<CenterTile, None, "occupied">>
    /\ Completed(CenterTile)
    /\ gets[CenterTile] = 1
    /\ worker = "recv"
    /\ tile_ch = <<>>
    /\ meshes = <<>>
    /\ DOMAIN cache = {CenterTile}

\* The position `delta` pixels of zoom z before pos.
Shifted(pos, delta, z) ==
    screen_to_position(<<Position_project(pos, z)[1] - delta[1],
                         Position_project(pos, z)[2] - delta[2]>>, z)

\* C11: once detached, the center mode never reverts to following the live
\* position. A frame with a primary drag leaves the mode detached, no step
\* takes a detached mode back to MyPosition, and in every frame of a
\* detached view the map is centered on the anchored position, whatever the
\* live position is.
C11_NeverRevertsToFollow ==
    /\ [](/\ last_drag.dragged => center_mode # MyPosition
          /\ (frame # "none" /\ center_mode # MyPosition) =>
                map_center = Position_project(center_mode.position, zoom)
          /\ (frame # "none" /\ center_mode = MyPosition) =>
                map_center = Position_project(my_position, zoom))
    /\ [][center_mode # MyPosition => center_mode' # MyPosition]_vars

\* A frame without a drag, on a detached view whose live position is not
\* where the view is anchored.
C11_Witness ==
    /\ frame = "done"
    /\ center_mode # MyPosition
    /\ ~last_drag.dragged
    /\ last_drag.before = center_mode
    /\ Position_project(my_position, zoom) # Position_project(center_mode.position, zoom)
    /\ map_center = Position_project(center_mode.position, zoom)

\* C12 as claimed: the drag that detaches the view is applied to the
\* position it anchors the view at, as the later drags are.
C12_FirstDragApplied ==
    (frame # "none" /\ last_drag.dragged /\ last_drag.before = MyPosition) =>
        center_mode = Exact(Shifted(my_position, last_drag.delta, zoom))

\* C12 amended: the drag that detaches the view anchors it at the live
\* position itself and its delta is discarded; every later drag moves the
\* anchored position by its delta, through the projection and back; a frame
\* without a drag leaves the mode as it was.
C12_FirstDragOnlyAnchors ==
    frame # "none" =>
        center_mode =
            IF ~last_drag.dragged THEN last_drag.before
            ELSE IF last_drag.before = MyPosition THEN Exact(my_position)
            ELSE Exact(Shifted(last_drag.before.position, last_drag.delta, zoom))

\* The first drag, by a delta that is not zero, anchored the view at the
\* live position.
C12_Witness ==
    /\ frame = "done"
    /\ last_drag.dragged
    /\ last_drag.before = MyPosition
    /\ last_drag.delta = <<1, 0>>
    /\ center_mode = Exact(my_position)
    /\ Shifted(my_position, last_drag.delta, zoom) # my_position

\* The render loop is idle: no frame is running.
Idle == stack = <<>> /\ frame # "drawing"

\* C20: with a render loop that is idle unless a redraw is requested, a
\* result that was pushed is eventually committed: the system is never idle
\* with no redraw requested and a result in the result queue; in particular
\* it is never so when the worker has nothing left to do either, and no
\* redraw request can follow.
C20_NoResultStranded ==
    ~( /\ Idle
       /\ ~redraw
       /\ tile_ch # <<>>
       /\ worker = "recv"
       /\ request_ch = <<>> )

====
